---- MODULE Spec2Model ----
(***************************************************************************)
(* Model of toolkit/charts.py: the class ThreeWChart.                       *)
(*                                                                         *)
(* A DataFrame is a sequence of rows; a row is a record with one field per *)
(* column.  Python positions are 0-based, the sequences here are 1-based:  *)
(* df.iloc[k] is df[k + 1].  A missing cell (NaN / NaT / None read from    *)
(* the file) is the value NaN; Python's None is the value None.            *)
(*                                                                         *)
(* Three specifications:                                                   *)
(*   Spec      an instance is constructed on a file and plot() is called   *)
(*             on it, repeatedly;                                          *)
(*   SegSpec   _get_background_shapes(df) is called on a DataFrame;        *)
(*   LoadSpec  _load_data(filename) is called on a file.                   *)
(***************************************************************************)
EXTENDS Integers, Sequences, FiniteSets, TLC

VARIABLES
    file,          \* content of the Parquet file at self.file_path (rows, in file order)
    y_axis,        \* self.y_axis
    use_dropdown,  \* self.use_dropdown
    df,            \* the DataFrame in hand: returned by _load_data, or passed to _get_background_shapes
    fig,           \* the figure shown by the last plot() (NoFig when it raised or was never called)
    stdout,        \* what the last call printed
    raised,        \* the exception the last call raised, "none" when it returned
    calls,         \* number of plot() calls made on the instance
    last_call,     \* the method called last
    ret            \* value returned by the last direct call of _get_background_shapes

vars == <<file, y_axis, use_dropdown, df, fig, stdout, raised, calls, last_call, ret>>

----------------------------------------------------------------------------
(* Encodings and bounds *)

NaN  == 0 - 1      \* a missing cell
None == 0 - 2      \* Python None (prev_class before the first valid label)

MaxRows     == 2   \* rows in the file, Spec
MaxTs       == 2   \* largest timestamp in the file, Spec
MaxPlots    == 2   \* plot() calls on one instance, Spec
SegMaxRows  == 4   \* rows of the DataFrame, SegSpec
SegMaxTs    == 4   \* largest timestamp of the DataFrame, SegSpec
LoadMaxRows == 3   \* rows in the file, LoadSpec
LoadMaxTs   == 3   \* largest timestamp in the file, LoadSpec

SeqsUpTo(S, n) == UNION {[1..k -> S] : k \in 0..n}

----------------------------------------------------------------------------
(* __init__: the class taxonomy *)

\* keys of self.class_mapping in insertion order (the order .items() iterates)
class_mapping_keys ==
    <<0, 1, 2, 3, 4, 5, 6, 7, 8, 9, 101, 102, 105, 106, 107, 108, 109>>

class_mapping ==
    (0 :> "Normal Operation") @@
    (1 :> "Abrupt Increase of BSW") @@
    (2 :> "Spurious Closure of DHSV") @@
    (3 :> "Severe Slugging") @@
    (4 :> "Flow Instability") @@
    (5 :> "Rapid Productivity Loss") @@
    (6 :> "Quick Restriction in PCK") @@
    (7 :> "Scaling in PCK") @@
    (8 :> "Hydrate in Production Line") @@
    (9 :> "Hydrate in Service Line") @@
    (101 :> "Transient: Abruption Increase of BSW") @@
    (102 :> "Transient: Spurious Closure of DHSV") @@
    (105 :> "Transient: Rapid Productivity Loss") @@
    (106 :> "Transient: Quick Restriction in PCK") @@
    (107 :> "Transient: Scaling in PCK") @@
    (108 :> "Transient: Hydrate in Production Line") @@
    (109 :> "Transient: Hydrate in Service Line")

class_colors ==
    (0 :> "white") @@ (1 :> "blue") @@ (2 :> "coral") @@ (3 :> "green") @@
    (4 :> "yellow") @@ (5 :> "brown") @@ (6 :> "pink") @@ (7 :> "gray") @@
    (8 :> "salmon") @@ (9 :> "red") @@ (101 :> "cyan") @@
    (102 :> "lightcoral") @@ (105 :> "beige") @@ (106 :> "lightpink") @@
    (107 :> "lightgray") @@ (108 :> "lightsalmon") @@ (109 :> "orange")

\* self.class_colors.get(prev_class, "white")
ColorGet(c) == IF c \in DOMAIN class_colors THEN class_colors[c] ELSE "white"

----------------------------------------------------------------------------
(* _load_data *)

\* columns of the DataFrame after reset_index, in column order
Columns == <<"timestamp", "P", "R", "class">>

\* df.reset_index(): the index level "timestamp" becomes the first column
ResetIndex(rows) ==
    [k \in 1..Len(rows) |->
        [timestamp |-> rows[k].index, P |-> rows[k].P,
         R |-> rows[k].R, class |-> rows[k].class]]

\* df.dropna(subset=["timestamp"])
IsNotNaTimestamp(r) == r.timestamp # NaN
DropNa(rows) == SelectSeq(rows, IsNotNaTimestamp)

\* variant of DropDuplicates with keep="last"
DropDuplicates_KeepLast(rows) ==
    LET F[k \in 0..Len(rows)] ==
            IF k = 0 THEN <<>>
            ELSE IF \E j \in (k + 1)..Len(rows) : rows[j].timestamp = rows[k].timestamp
                 THEN F[k - 1]
                 ELSE Append(F[k - 1], rows[k])
    IN  F[Len(rows)]

\* df.drop_duplicates("timestamp"): keep="first"
DropDuplicates(rows) ==
    LET F[k \in 0..Len(rows)] ==
            IF k = 0 THEN <<>>
            ELSE IF \E j \in 1..(k - 1) : rows[j].timestamp = rows[k].timestamp
                 THEN F[k - 1]
                 ELSE Append(F[k - 1], rows[k])
    IN  F[Len(rows)]

\* df.fillna(0)
FillCell(v) == IF v = NaN THEN 0 ELSE v
FillNa(rows) ==
    [k \in 1..Len(rows) |->
        [timestamp |-> FillCell(rows[k].timestamp), P |-> FillCell(rows[k].P),
         R |-> FillCell(rows[k].R), class |-> FillCell(rows[k].class)]]

\* df.sort_values(by="timestamp"): ascending
RECURSIVE InsertSorted(_, _)
InsertSorted(sorted, r) ==
    IF sorted = <<>> THEN <<r>>
    ELSE IF r.timestamp < Head(sorted).timestamp
         THEN <<r>> \o sorted
         ELSE <<Head(sorted)>> \o InsertSorted(Tail(sorted), r)

SortValues(rows) ==
    LET F[k \in 0..Len(rows)] ==
            IF k = 0 THEN <<>> ELSE InsertSorted(F[k - 1], rows[k])
    IN  F[Len(rows)]

LoadData(content) == SortValues(FillNa(DropDuplicates(DropNa(ResetIndex(content)))))

----------------------------------------------------------------------------
(* _get_non_zero_columns *)

\* df[col].astype(bool).sum(): any value other than 0 converts to True
NonZeroCount(d, col) == Cardinality({k \in 1..Len(d) : d[k][col] # 0})

\* variant of IsNonZeroColumn that does not exclude the timestamp and class columns
IsNonZeroColumn_NoExclusion(d, col) == NonZeroCount(d, col) > 0

IsNonZeroColumn(d, col) ==
    NonZeroCount(d, col) > 0 /\ col # "timestamp" /\ col # "class"

GetNonZeroColumns(d) ==
    LET F[k \in 0..Len(Columns)] ==
            IF k = 0 THEN <<>>
            ELSE IF IsNonZeroColumn(d, Columns[k])
                 THEN Append(F[k - 1], Columns[k])
                 ELSE F[k - 1]
    IN  F[Len(Columns)]

----------------------------------------------------------------------------
(* _get_background_shapes *)

\* the dict appended to shapes (the constant keys type, y0, y1, xref, yref,
\* opacity, line_width are the same in every shape and are left out)
Rect(d, first, last, cls) ==
    [x0 |-> d[first].timestamp, x1 |-> d[last].timestamp, fillcolor |-> ColorGet(cls)]

\* state of the loop before the first iteration
LoopInit == [shapes |-> <<>>, prev_class |-> None, start_idx |-> 1, warnings |-> <<>>]

\* variant of LoopBody that does not move start_idx when a run is closed
LoopBody_NoRestart(d, i, st) ==
    LET current_class == d[i].class IN
    IF current_class = NaN
    THEN [st EXCEPT !.warnings = Append(@, i - 1)]
    ELSE IF st.prev_class # None /\ current_class # st.prev_class
         THEN [shapes     |-> Append(st.shapes, Rect(d, st.start_idx, i - 1, st.prev_class)),
               prev_class |-> current_class,
               start_idx  |-> st.start_idx,
               warnings   |-> st.warnings]
         ELSE [st EXCEPT !.prev_class = current_class]

\* variant of LoopBody in which a NaN label closes the open run
LoopBody_BreakOnNaN(d, i, st) ==
    LET current_class == d[i].class IN
    IF current_class = NaN
    THEN [shapes     |-> IF st.prev_class # None
                         THEN Append(st.shapes, Rect(d, st.start_idx, i - 1, st.prev_class))
                         ELSE st.shapes,
          prev_class |-> None,
          start_idx  |-> i + 1,
          warnings   |-> Append(st.warnings, i - 1)]
    ELSE IF st.prev_class # None /\ current_class # st.prev_class
         THEN [shapes     |-> Append(st.shapes, Rect(d, st.start_idx, i - 1, st.prev_class)),
               prev_class |-> current_class,
               start_idx  |-> i,
               warnings   |-> st.warnings]
         ELSE [st EXCEPT !.prev_class = current_class]

\* one iteration of the for loop, at (1-based) position i
LoopBody(d, i, st) ==
    LET current_class == d[i].class IN
    IF current_class = NaN
    THEN [st EXCEPT !.warnings = Append(@, i - 1)]
    ELSE IF st.prev_class # None /\ current_class # st.prev_class
         THEN [shapes     |-> Append(st.shapes, Rect(d, st.start_idx, i - 1, st.prev_class)),
               prev_class |-> current_class,
               start_idx  |-> i,
               warnings   |-> st.warnings]
         ELSE [st EXCEPT !.prev_class = current_class]

\* the part after the loop
LoopExit(d, st) ==
    IF st.prev_class # None
    THEN [st EXCEPT !.shapes = Append(@, Rect(d, st.start_idx, Len(d), st.prev_class))]
    ELSE st

\* returns the shapes and the indices the NaN warnings were printed for
GetBackgroundShapes(d) ==
    LET F[k \in 0..Len(d)] ==
            IF k = 0 THEN LoopInit ELSE LoopBody(d, k, F[k - 1])
        end == LoopExit(d, F[Len(d)])
    IN  [shapes |-> end.shapes, warnings |-> end.warnings]

----------------------------------------------------------------------------
(* _add_custom_legend *)

LegendEntry(class_value) ==
    [name  |-> ToString(class_value) \o ": " \o class_mapping[class_value],
     color |-> class_colors[class_value]]

\* variant of AddCustomLegend that lists only the classes drawn as shapes
AddCustomLegend_FromData(f) ==
    [f EXCEPT !.legend =
        SelectSeq([k \in 1..Len(class_mapping_keys) |-> LegendEntry(class_mapping_keys[k])],
                  LAMBDA e : \E n \in 1..Len(f.shapes) : f.shapes[n].fillcolor = e.color)]

\* the legend traces appended to the figure, in order
AddCustomLegend(f) ==
    [f EXCEPT !.legend =
        [k \in 1..Len(class_mapping_keys) |-> LegendEntry(class_mapping_keys[k])]]

----------------------------------------------------------------------------
(* plot *)

NoStdout == [fallback |-> <<>>, nan |-> <<>>]

NoFig == [series_name |-> "", series_x |-> <<>>, series_y |-> <<>>,
          buttons |-> <<>>, active |-> 0 - 1, shapes |-> <<>>,
          xaxis_title |-> "", yaxis_title |-> "", legend |-> <<>>]

Column(d, col) == [k \in 1..Len(d) |-> d[k][col]]

IndexOf(s, e) == CHOOSE k \in 1..Len(s) : s[k] = e /\ \A j \in 1..(k - 1) : s[j] # e

InSeq(s, e) == \E k \in 1..Len(s) : s[k] = e

\* variant of DefaultYAxis whose fallback is the last available column
DefaultYAxis_Last(requested, available_y_axes) ==
    IF ~InSeq(available_y_axes, requested)
    THEN [name |-> available_y_axes[Len(available_y_axes)], fallback |-> TRUE]
    ELSE [name |-> requested, fallback |-> FALSE]

\* variant of DefaultYAxis that stores the first available column without
\* looking at the requested one
DefaultYAxis_AlwaysFirst(requested, available_y_axes) ==
    [name |-> available_y_axes[1], fallback |-> ~InSeq(available_y_axes, requested)]

\* lines 216-223: the column of the default trace, and whether the warning is printed
DefaultYAxis(requested, available_y_axes) ==
    IF ~InSeq(available_y_axes, requested)
    THEN [name |-> available_y_axes[1], fallback |-> TRUE]
    ELSE [name |-> requested, fallback |-> FALSE]

\* line 257
YAxisTitle(dropdown, self_y_axis, available_y_axes) ==
    IF ~dropdown THEN self_y_axis ELSE available_y_axes[1]

\* lines 253-261, common to both modes; bg is _get_background_shapes(df)
Finish(f, bg, dropdown, self_y_axis, available_y_axes) ==
    AddCustomLegend(
        [f EXCEPT !.shapes = bg.shapes,
                  !.xaxis_title = "Timestamp",
                  !.yaxis_title = YAxisTitle(dropdown, self_y_axis, available_y_axes)])

Raise(exc, out) ==
    /\ raised' = exc
    /\ fig' = NoFig
    /\ stdout' = out

\* lines 200-248: the branch taken when use_dropdown is set
PlotDropdown(d, available_y_axes) ==
    IF available_y_axes # <<>>
    THEN LET sel == DefaultYAxis(y_axis, available_y_axes)
             out == [fallback |-> IF sel.fallback THEN <<y_axis>> ELSE <<>>,
                     nan |-> <<>>]
             active_index == IndexOf(available_y_axes, sel.name) - 1
             f == [NoFig EXCEPT !.series_name = sel.name,
                                !.series_x = Column(d, "timestamp"),
                                !.series_y = Column(d, sel.name),
                                !.buttons = available_y_axes,
                                !.active = active_index]
         IN  /\ y_axis' = sel.name
             /\ IF Len(d) = 0
                THEN Raise("ValueError", out)
                ELSE \E bg \in {GetBackgroundShapes(d)} :
                        /\ raised' = "none"
                        /\ fig' = Finish(f, bg, TRUE, sel.name, available_y_axes)
                        /\ stdout' = [out EXCEPT !.nan = bg.warnings]
    ELSE /\ Raise("ValueError", NoStdout)
         /\ UNCHANGED y_axis

\* lines 249-251: the branch taken when use_dropdown is not set
PlotStatic(d, available_y_axes) ==
    /\ UNCHANGED y_axis
    /\ IF ~InSeq(Columns, y_axis)
       THEN Raise("KeyError", NoStdout)
       ELSE LET f == [NoFig EXCEPT !.series_name = y_axis,
                                   !.series_x = Column(d, "timestamp"),
                                   !.series_y = Column(d, y_axis)]
            IN  \E bg \in {GetBackgroundShapes(d)} :
                   /\ raised' = "none"
                   /\ fig' = Finish(f, bg, FALSE, y_axis, available_y_axes)
                   /\ stdout' = [NoStdout EXCEPT !.nan = bg.warnings]

Plot ==
    /\ calls < MaxPlots
    /\ calls' = calls + 1
    /\ last_call' = "plot"
    /\ UNCHANGED <<file, use_dropdown, ret>>
    /\ \E d \in {LoadData(file)} :
          /\ df' = d
          /\ \E available_y_axes \in {GetNonZeroColumns(d)} :
                IF use_dropdown
                THEN PlotDropdown(d, available_y_axes)
                ELSE PlotStatic(d, available_y_axes)

----------------------------------------------------------------------------
(* Spec: ThreeWChart(file_path, y_axis=..., use_dropdown=...) then plot() *)

TsValues == 1..MaxTs
\* rows of the file: every row has a timestamp (rows without one are the
\* subject of LoadSpec), cells of P and class may be missing
FileRows == [index : TsValues, P : {NaN, 5}, R : {0, 5}, class : {NaN, 1, 10}]
Files == SeqsUpTo(FileRows, MaxRows)
RequestedChannels == {"P", "R", "Q"}

Init ==
    /\ file \in Files
    /\ y_axis \in RequestedChannels
    /\ use_dropdown \in BOOLEAN
    /\ df = <<>>
    /\ fig = NoFig
    /\ stdout = NoStdout
    /\ raised = "none"
    /\ calls = 0
    /\ last_call = "none"
    /\ ret = <<>>

Next == Plot

Spec == Init /\ [][Next]_vars

----------------------------------------------------------------------------
(* SegSpec: chart._get_background_shapes(df) on a DataFrame with sorted,   *)
(* distinct timestamps whose class column may hold NaN                      *)

SegClasses == {NaN, 0, 1, 10}
SegTimestamps == {T \in SUBSET (1..SegMaxTs) : Cardinality(T) <= SegMaxRows}
Ascending(T) ==
    [k \in 1..Cardinality(T) |-> CHOOSE t \in T : Cardinality({u \in T : u < t}) = k - 1]
SegTables ==
    UNION {{[k \in 1..Cardinality(T) |-> [timestamp |-> Ascending(T)[k], class |-> c[k]]] :
               c \in [1..Cardinality(T) -> SegClasses]} : T \in SegTimestamps}

SegInit ==
    /\ df \in SegTables
    /\ file = <<>>
    /\ y_axis = "P-MON-CKP"
    /\ use_dropdown = FALSE
    /\ fig = NoFig
    /\ stdout = NoStdout
    /\ raised = "none"
    /\ calls = 0
    /\ last_call = "none"
    /\ ret = <<>>

GetBackgroundShapesCall ==
    /\ last_call = "none"
    /\ last_call' = "_get_background_shapes"
    /\ \E bg \in {GetBackgroundShapes(df)} :
          /\ ret' = bg.shapes
          /\ stdout' = [NoStdout EXCEPT !.nan = bg.warnings]
    /\ UNCHANGED <<file, y_axis, use_dropdown, df, fig, raised, calls>>

SegNext == GetBackgroundShapesCall

SegSpec == SegInit /\ [][SegNext]_vars

----------------------------------------------------------------------------
(* LoadSpec: chart._load_data(filename) on a file *)

LoadFileRows ==
    [index : (1..LoadMaxTs) \cup {NaN}, P : {NaN, 5, 6}, R : {0}, class : {NaN, 1}]
LoadFiles == SeqsUpTo(LoadFileRows, LoadMaxRows)

LoadInit ==
    /\ file \in LoadFiles
    /\ y_axis = "P-MON-CKP"
    /\ use_dropdown = FALSE
    /\ df = <<>>
    /\ fig = NoFig
    /\ stdout = NoStdout
    /\ raised = "none"
    /\ calls = 0
    /\ last_call = "none"
    /\ ret = <<>>

LoadDataCall ==
    /\ last_call = "none"
    /\ last_call' = "_load_data"
    /\ df' = LoadData(file)
    /\ UNCHANGED <<file, y_axis, use_dropdown, fig, stdout, raised, calls, ret>>

LoadNext == LoadDataCall

LoadSpec == LoadInit /\ [][LoadNext]_vars

----------------------------------------------------------------------------
(* Properties of _get_background_shapes (SegSpec) *)

Segmented == last_call = "_get_background_shapes"

AllValid(d) == \A k \in 1..Len(d) : d[k].class # NaN

\* positions where a maximal run of equal consecutive labels starts / ends
RunStarts(d) == {k \in 1..Len(d) : k = 1 \/ d[k].class # d[k - 1].class}
RunEnds(d)   == {k \in 1..Len(d) : k = Len(d) \/ d[k].class # d[k + 1].class}
Kth(S, k)    == CHOOSE x \in S : Cardinality({y \in S : y < x}) = k - 1

\* the shapes that cover the timestamp of row k
Covering(shapes, d, k) ==
    {n \in 1..Len(shapes) :
        shapes[n].x0 <= d[k].timestamp /\ d[k].timestamp <= shapes[n].x1}

\* C1: on a table whose labels are all valid, the shapes are exactly the
\* maximal runs of equal consecutive labels, in row order: the k-th shape goes
\* from the timestamp of the first row of the k-th run to the timestamp of its
\* last row and has the colour of the run's label; the empty table gives no
\* shape, a single row gives one shape with x0 = x1, and every row lies in
\* exactly one shape.
C1_RunsAreShapes ==
    (Segmented /\ AllValid(df)) =>
        /\ Len(ret) = Cardinality(RunStarts(df))
        /\ \A n \in 1..Len(ret) :
              /\ ret[n].x0 = df[Kth(RunStarts(df), n)].timestamp
              /\ ret[n].x1 = df[Kth(RunEnds(df), n)].timestamp
              /\ ret[n].fillcolor = ColorGet(df[Kth(RunStarts(df), n)].class)
        /\ (Len(df) = 0 => ret = <<>>)
        /\ (Len(df) = 1 => Len(ret) = 1 /\ ret[1].x0 = ret[1].x1)
        /\ \A k \in 1..Len(df) : Cardinality(Covering(ret, df, k)) = 1

C1_Witness ==
    /\ Segmented /\ AllValid(df) /\ Len(df) = 4
    /\ df[1].class = df[2].class /\ df[2].class # df[3].class
    /\ df[3].class # df[4].class
    /\ Len(ret) = 3

\* a valid label, then one or more NaN labels, then the same label again
ValidNaNValid(d) ==
    /\ Len(d) >= 3
    /\ d[1].class # NaN
    /\ d[Len(d)].class = d[1].class
    /\ \A k \in 2..(Len(d) - 1) : d[k].class = NaN

\* C4: on a table whose labels are L, NaN..NaN, L the open run is not closed
\* at the NaN rows: the result is the single shape of L from the first to the
\* last timestamp, and one warning is printed per NaN row.
C4_NaNKeepsRunOpen ==
    (Segmented /\ ValidNaNValid(df)) =>
        /\ ret = <<[x0 |-> df[1].timestamp, x1 |-> df[Len(df)].timestamp,
                    fillcolor |-> ColorGet(df[1].class)]>>
        /\ Len(stdout.nan) = Len(df) - 2
        /\ \A k \in 2..(Len(df) - 1) : stdout.nan[k - 1] = k - 1

C4_Witness ==
    /\ Segmented /\ ValidNaNValid(df) /\ Len(df) = 4 /\ df[1].class = 1
    /\ Len(ret) = 1 /\ Len(stdout.nan) = 2

\* C7: in every shape both x0 and x1 are timestamps of rows whose label is
\* valid and is the label the shape is coloured for.
C7_ShapeEndsOnValidRows ==
    Segmented =>
        \A n \in 1..Len(ret) :
            /\ \E k \in 1..Len(df) :
                  /\ df[k].timestamp = ret[n].x0
                  /\ df[k].class # NaN
                  /\ ColorGet(df[k].class) = ret[n].fillcolor
            /\ \E k \in 1..Len(df) :
                  /\ df[k].timestamp = ret[n].x1
                  /\ df[k].class # NaN
                  /\ ColorGet(df[k].class) = ret[n].fillcolor

----------------------------------------------------------------------------
(* Properties of _load_data (LoadSpec) *)

Loaded == last_call = "_load_data"

\* position in the file of the first row with timestamp t
FirstWith(t) ==
    CHOOSE k \in 1..Len(file) :
        file[k].index = t /\ \A j \in 1..(k - 1) : file[j].index # t

ZeroIfMissing(v) == IF v = NaN THEN 0 ELSE v

\* C5: the table returned by _load_data has strictly increasing timestamps,
\* no row with a missing timestamp and no missing cell, and holds for each
\* timestamp of the file exactly the first row of the file with it.
C5_LoadedTableNormalized ==
    Loaded =>
        /\ \A k \in 1..(Len(df) - 1) : df[k].timestamp < df[k + 1].timestamp
        /\ \A k \in 1..Len(df) :
              /\ df[k].timestamp # NaN /\ df[k].P # NaN
              /\ df[k].R # NaN /\ df[k].class # NaN
        /\ {df[k].timestamp : k \in 1..Len(df)}
              = {file[k].index : k \in 1..Len(file)} \ {NaN}
        /\ \A k \in 1..Len(df) :
              LET src == file[FirstWith(df[k].timestamp)] IN
              /\ df[k].P = ZeroIfMissing(src.P)
              /\ df[k].R = ZeroIfMissing(src.R)
              /\ df[k].class = ZeroIfMissing(src.class)

C5_Witness ==
    /\ Loaded /\ Len(file) = 3 /\ Len(df) = 2
    /\ file[1].index = 2 /\ file[2].index = 1 /\ file[3].index = 2
    /\ file[1].P = 5 /\ file[3].P = 6 /\ file[2].class = NaN
    /\ df[2].P = 5

----------------------------------------------------------------------------
(* Properties of plot (Spec) *)

Built == last_call = "plot" /\ raised = "none"

\* the eligible channels of a table, in column order
HasNonZero(d, c) == \E k \in 1..Len(d) : d[k][c] # 0
EligibleChannels(d) ==
    (IF HasNonZero(d, "P") THEN <<"P">> ELSE <<>>) \o
    (IF HasNonZero(d, "R") THEN <<"R">> ELSE <<>>)

IsEligible(d, c) == \E k \in 1..Len(EligibleChannels(d)) : EligibleChannels(d)[k] = c

\* what a build does with the requested channel when a channel is eligible
ResolvesOrFallsBack ==
    /\ raised' = "none"
    /\ IF IsEligible(df', y_axis)
       THEN /\ fig'.series_name = y_axis
            /\ fig'.series_y = [k \in 1..Len(df') |-> df'[k][y_axis]]
            /\ stdout'.fallback = <<>>
       ELSE /\ fig'.series_name = EligibleChannels(df')[1]
            /\ fig'.series_y = [k \in 1..Len(df') |-> df'[k][EligibleChannels(df')[1]]]
            /\ stdout'.fallback # <<>>

ExpectedLegend ==
    << [name |-> "0: Normal Operation", color |-> "white"],
       [name |-> "1: Abrupt Increase of BSW", color |-> "blue"],
       [name |-> "2: Spurious Closure of DHSV", color |-> "coral"],
       [name |-> "3: Severe Slugging", color |-> "green"],
       [name |-> "4: Flow Instability", color |-> "yellow"],
       [name |-> "5: Rapid Productivity Loss", color |-> "brown"],
       [name |-> "6: Quick Restriction in PCK", color |-> "pink"],
       [name |-> "7: Scaling in PCK", color |-> "gray"],
       [name |-> "8: Hydrate in Production Line", color |-> "salmon"],
       [name |-> "9: Hydrate in Service Line", color |-> "red"],
       [name |-> "101: Transient: Abruption Increase of BSW", color |-> "cyan"],
       [name |-> "102: Transient: Spurious Closure of DHSV", color |-> "lightcoral"],
       [name |-> "105: Transient: Rapid Productivity Loss", color |-> "beige"],
       [name |-> "106: Transient: Quick Restriction in PCK", color |-> "lightpink"],
       [name |-> "107: Transient: Scaling in PCK", color |-> "lightgray"],
       [name |-> "108: Transient: Hydrate in Production Line", color |-> "lightsalmon"],
       [name |-> "109: Transient: Hydrate in Service Line", color |-> "orange"] >>

\* C6: whatever class codes the table holds, the legend of a chart has one
\* entry per taxonomy entry (17), in declaration order, each with the name and
\* the colour of its code.
C6_LegendIsTaxonomy ==
    Built => (Len(fig.legend) = 17 /\ fig.legend = ExpectedLegend)

C6_Witness ==
    /\ Built /\ Len(df) = 2
    /\ df[1].class = 10 /\ df[2].class = 1
    /\ Len(fig.legend) = 17

\* C8: in every chart the y-axis label is the name of the channel whose
\* values form the line series.
C8_YAxisTitleIsActiveChannel ==
    Built => fig.yaxis_title = fig.series_name

\* rows of the file that reach the loaded table with a missing class code
KeptWithMissingClass ==
    {k \in 1..Len(file) :
        /\ file[k].index # NaN
        /\ file[k].class = NaN
        /\ \A j \in 1..(k - 1) : file[j].index # file[k].index}

\* C9: in a build, every row of the file that keeps its timestamp and has a
\* missing class code is reported by an invalid-label warning and lies in no
\* segment of any class.
C9_MissingClassReported ==
    Built =>
        /\ Len(stdout.nan) = Cardinality(KeptWithMissingClass)
        /\ \A k \in KeptWithMissingClass :
              \A n \in 1..Len(fig.shapes) :
                  ~(fig.shapes[n].x0 <= file[k].index /\ file[k].index <= fig.shapes[n].x1)

\* C10 as stated: a build leaves the stored active channel as it was, and two
\* successive builds resolve the same channel with the same fallback warning.
C10_Original ==
    [][(calls' = calls + 1) =>
          /\ y_axis' = y_axis
          /\ (calls >= 1 /\ raised = "none" /\ raised' = "none") =>
                (fig'.series_name = fig.series_name /\ stdout'.fallback = stdout.fallback)]_vars

\* C10 amended: a build changes the stored active channel only when it takes
\* the fallback (dropdown enabled, requested channel not eligible, some
\* channel eligible), and then stores the first eligible channel; a further
\* build on the same table leaves it unchanged, produces the same chart and
\* prints no fallback warning.
C10_BuildStoresFallbackOnly ==
    [][(calls' = calls + 1) =>
          /\ \/ y_axis' = y_axis
             \/ /\ use_dropdown
                /\ EligibleChannels(df') # <<>>
                /\ ~IsEligible(df', y_axis)
                /\ y_axis' = EligibleChannels(df')[1]
                /\ stdout'.fallback # <<>>
          /\ calls >= 1 =>
                /\ y_axis' = y_axis
                /\ raised' = raised
                /\ fig' = fig
                /\ stdout'.fallback = <<>>]_vars

C10_Witness ==
    /\ Built /\ use_dropdown /\ calls = 1
    /\ stdout.fallback = <<"P">>
    /\ y_axis = "R" /\ EligibleChannels(df) = <<"R">>
    /\ fig.series_name = "R"

====
